---- MODULE Spec2Model ----
(***************************************************************************)
(* rs-dds-server: the bridge between hardware RealSense devices and DDS.   *)
(*                                                                         *)
(* The control thread runs the device watcher's attach and detach          *)
(* callbacks (main, rs-dds-server.cpp:368-416); every started stream       *)
(* delivers frames on an SDK thread through the frame callback installed   *)
(* by start_streaming (rs-dds-server.cpp:83-96).  The callbacks are cut at *)
(* their calls into shared objects (broadcaster, device server, registry   *)
(* map, device controller) so that the frame threads interleave with them. *)
(***************************************************************************)
EXTENDS Integers, Sequences, FiniteSets, TLC

\* ----------------------------------------------------------------- bounds
\* Number of hardware device handles the watcher can report.
NumDevs == 2
\* Cap on the number of image messages counted per data channel.
MaxFrames == 1
\* Longest list of stream profiles a message is built from on its own.
MaxProfiles == 2
\* Longest list of sensors the profile messages are built from on its own.
MaxSensors == 3

Devs == 1..NumDevs

\* ------------------------------------------------------ hardware profiles
\* Integer widths of the wire fields (static_cast< int8_t >, < int16_t >).
ToInt8(x) == ((x + 128) % 256) - 128
ToInt16(x) == ((x + 32768) % 65536) - 32768

\* An rs2::video_stream_profile as the SDK reports it.
VideoProfile(stream, name, idx, uid, fps, fmt, w, h, def) ==
    [kind |-> "video", stream_type |-> stream, name |-> name,
     stream_index |-> idx, unique_id |-> uid, fps |-> fps, format |-> fmt,
     width |-> w, height |-> h, is_default |-> def]

\* An rs2::motion_stream_profile as the SDK reports it (no dimensions).
MotionProfile(stream, name, idx, uid, fps, fmt, def) ==
    [kind |-> "motion", stream_type |-> stream, name |-> name,
     stream_index |-> idx, unique_id |-> uid, fps |-> fps, format |-> fmt,
     width |-> 0, height |-> 0, is_default |-> def]

\* rs2::stream_profile::stream_name(): the name the SDK gives the stream.
stream_name(sp) == sp.name

\* An rs2::sensor: its kind (what sensor.is< ... >() answers), its name
\* and its stream profiles in enumeration order.
Sensor(kind, name, profiles) ==
    [kind |-> kind, name |-> name, profiles |-> profiles]

ColorRGB720 ==
    VideoProfile("COLOR", "Color", 0, 10, 30, "RGB8", 1280, 720, TRUE)
ColorYUYV480 ==
    VideoProfile("COLOR", "Color", 0, 11, 30, "YUYV", 640, 480, FALSE)
DepthZ720 ==
    VideoProfile("DEPTH", "Depth", 0, 20, 30, "Z16", 1280, 720, TRUE)
Infrared1 ==
    VideoProfile("INFRARED", "Infrared 1", 1, 21, 30, "Y8", 640, 480, FALSE)
Gyro200 == MotionProfile("GYRO", "Gyro", 0, 30, 200, "MXYZ", TRUE)
Accel63 == MotionProfile("ACCEL", "Accel", 0, 31, 63, "MXYZ", FALSE)
Pose200 == MotionProfile("POSE", "Pose", 0, 40, 200, "6DOF", TRUE)

\* The sensor lists of the devices the watcher may report.
HwFull ==
    << Sensor("depth", "Stereo Module", <<DepthZ720, Infrared1>>),
       Sensor("color", "RGB Camera", <<ColorYUYV480, ColorRGB720>>),
       Sensor("motion", "Motion Module", <<Gyro200, Accel63>>) >>
HwNoRequired == << Sensor("color", "RGB Camera", <<ColorYUYV480>>) >>
HwUnsupported ==
    << Sensor("color", "RGB Camera", <<ColorRGB720>>),
       Sensor("pose", "Tracking Module", <<Pose200>>),
       Sensor("motion", "Motion Module", <<Gyro200>>) >>
HwMixed ==
    << Sensor("color", "RGB Camera", <<ColorRGB720, Gyro200>>),
       Sensor("motion", "Motion Module", <<>>) >>

HwConfigs == {HwFull, HwNoRequired, HwUnsupported, HwMixed}

\* ------------------------------------------------------------ device info
\* A string the code takes apart is a sequence of characters.
DEVICE_NAME_PREFIX ==
    <<"I","n","t","e","l"," ","R","e","a","l","S","e","n","s","e"," ">>
DEVICE_NAME_PREFIX_CCH == 16
RS_ROOT == <<"r","e","a","l","s","e","n","s","e","/">>

\* strncmp( s, t, n ) == 0 for strings without an embedded NUL: the two
\* agree on their first n characters, a string shorter than n ending there.
Take(s, n) == SubSeq(s, 1, IF Len(s) < n THEN Len(s) ELSE n)
StrNEq(s, t, n) == Take(s, n) = Take(t, n)

\* get_topic_root without the test of the name's length.
get_topic_root_any_length(name, serial) ==
    LET model_name ==
            IF StrNEq(name, DEVICE_NAME_PREFIX, DEVICE_NAME_PREFIX_CCH)
            THEN SubSeq(name, DEVICE_NAME_PREFIX_CCH + 1, Len(name))
            ELSE name
    IN  RS_ROOT \o model_name \o <<"/">> \o serial

\* get_topic_root: "realsense/" + model name without the vendor prefix
\* + "/" + serial.
get_topic_root(name, serial) ==
    LET model_name ==
            IF /\ Len(name) > DEVICE_NAME_PREFIX_CCH
               /\ StrNEq(name, DEVICE_NAME_PREFIX, DEVICE_NAME_PREFIX_CCH)
            THEN SubSeq(name, DEVICE_NAME_PREFIX_CCH + 1, Len(name))
            ELSE name
    IN  RS_ROOT \o model_name \o <<"/">> \o serial

\* The name and serial number of the devices the watcher reports when
\* nothing else is said: a RealSense camera and cameras of another make.
Digit == <<"1", "2", "3", "4", "5", "6", "7", "8", "9">>
Identity(name, serial) == [name |-> name, serial |-> serial]
DefaultIdentity(d) ==
    IF d = 1
    THEN Identity(DEVICE_NAME_PREFIX \o <<"D","4","3","5">>,
                  <<Digit[d], Digit[d]>>)
    ELSE Identity(<<"G","e","n","e","r","i","c"," ","C","a","m">>,
                  <<Digit[d], Digit[d]>>)

\* ------------------------------------------------- initialization messages
\* Sum over a sequence of numbers.
RECURSIVE SumSeq(_)
SumSeq(s) == IF s = <<>> THEN 0 ELSE Head(s) + SumSeq(Tail(s))

\* A list of names made from the first sensor only.
get_supported_streams_first_sensor(sensors) ==
    IF sensors = <<>> THEN {}
    ELSE { stream_name(sensors[1].profiles[j]) :
                j \in 1..Len(sensors[1].profiles) }

\* get_supported_streams: the names of all streams of all sensors.
get_supported_streams(sensors) ==
    UNION { { stream_name(sensors[i].profiles[j]) :
                j \in 1..Len(sensors[i].profiles) } : i \in DOMAIN sensors }

\* A header that counts the sensors instead of their profiles.
add_init_device_header_msg_sensors(sensors) ==
    [type |-> "DEVICE_HEADER", num_of_streams |-> Len(sensors)]

\* add_init_device_header_msg: num_of_streams counts every profile of
\* every sensor.
add_init_device_header_msg(sensors) ==
    [type |-> "DEVICE_HEADER",
     num_of_streams |->
        SumSeq([i \in DOMAIN sensors |-> Len(sensors[i].profiles)])]

\* A wire record whose width is narrowed to 8 bits.
video_stream_profile_narrow(vsp) ==
    [stream_index |-> ToInt8(vsp.stream_index),
     uid |-> ToInt16(vsp.unique_id),
     framerate |-> ToInt16(vsp.fps),
     format |-> vsp.format,
     type |-> vsp.stream_type,
     width |-> ToInt8(vsp.width),
     height |-> ToInt16(vsp.height),
     default_profile |-> vsp.is_default]

\* The wire record of one video profile.
video_stream_profile(vsp) ==
    [stream_index |-> ToInt8(vsp.stream_index),
     uid |-> ToInt16(vsp.unique_id),
     framerate |-> ToInt16(vsp.fps),
     format |-> vsp.format,
     type |-> vsp.stream_type,
     width |-> ToInt16(vsp.width),
     height |-> ToInt16(vsp.height),
     default_profile |-> vsp.is_default]

\* The wire record of one motion profile.
motion_stream_profile(msp) ==
    [stream_index |-> ToInt8(msp.stream_index),
     uid |-> ToInt16(msp.unique_id),
     framerate |-> ToInt16(msp.fps),
     format |-> msp.format,
     type |-> msp.stream_type,
     default_profile |-> msp.is_default]

IsVideo(sp) == sp.kind = "video"
IsMotion(sp) == sp.kind = "motion"

\* prepare_video_profiles_messeges: the video profiles of the sensor in
\* order; any other profile is logged and skipped.
prepare_video_profiles_messeges(sensor_name, stream_profiles) ==
    LET kept == SelectSeq(stream_profiles, IsVideo)
    IN  [type |-> "VIDEO_STREAM_PROFILES",
         group_name |-> sensor_name,
         num_of_profiles |-> Len(kept),
         profiles |-> [i \in 1..Len(kept) |-> video_stream_profile(kept[i])]]

\* prepare_motion_profiles_messeges: the motion profiles of the sensor in
\* order; any other profile is logged and skipped.
prepare_motion_profiles_messeges(sensor_name, stream_profiles) ==
    LET kept == SelectSeq(stream_profiles, IsMotion)
    IN  [type |-> "MOTION_STREAM_PROFILES",
         group_name |-> sensor_name,
         num_of_profiles |-> Len(kept),
         profiles |-> [i \in 1..Len(kept) |-> motion_stream_profile(kept[i])]]

\* A loop that leaves after the first sensor.
add_init_profiles_msgs_first(sensors) ==
    IF sensors = <<>> THEN [msgs |-> <<>>, threw |-> FALSE]
    ELSE
        LET sensor == Head(sensors)
            msg == IF sensor.kind \in {"color", "depth"}
                   THEN prepare_video_profiles_messeges(sensor.name,
                                                        sensor.profiles)
                   ELSE prepare_motion_profiles_messeges(sensor.name,
                                                         sensor.profiles)
        IN  IF sensor.kind \notin {"color", "depth", "motion"}
            THEN [msgs |-> <<>>, threw |-> TRUE]
            ELSE [msgs |-> IF msg.num_of_profiles > 0 THEN <<msg>> ELSE <<>>,
                  threw |-> FALSE]

\* add_init_profiles_msgs: one message per sensor with at least one
\* profile of its kind, in sensor order; the first sensor that is neither
\* video nor motion throws.  The result is the messages queued until then
\* and whether the function threw.
RECURSIVE add_init_profiles_msgs(_)
add_init_profiles_msgs(sensors) ==
    IF sensors = <<>> THEN [msgs |-> <<>>, threw |-> FALSE]
    ELSE
        LET sensor == Head(sensors)
            msg == IF sensor.kind \in {"color", "depth"}
                   THEN prepare_video_profiles_messeges(sensor.name,
                                                        sensor.profiles)
                   ELSE prepare_motion_profiles_messeges(sensor.name,
                                                         sensor.profiles)
            rest == add_init_profiles_msgs(Tail(sensors))
        IN  IF sensor.kind \notin {"color", "depth", "motion"}
            THEN [msgs |-> <<>>, threw |-> TRUE]
            ELSE [msgs |-> (IF msg.num_of_profiles > 0 THEN <<msg>> ELSE <<>>)
                           \o rest.msgs,
                  threw |-> rest.threw]

\* init_dds_device: the device header, then the profile messages.
init_dds_device(sensors) ==
    LET profiles == add_init_profiles_msgs(sensors)
    IN  [msgs |-> <<add_init_device_header_msg(sensors)>> \o profiles.msgs,
         threw |-> profiles.threw]

\* get_required_profile on dev.first< rs2::color_sensor >(): the first
\* profile of the first color sensor with the requested stream, rate,
\* format and size; Missing when first<> or the search throws.
Missing == [kind |-> "none"]
get_required_profile(sensors, stream, fps, format, width, height) ==
    LET colour == SelectSeq(sensors, LAMBDA s : s.kind = "color")
        Wanted(sp) == /\ sp.stream_type = stream
                      /\ sp.fps = fps
                      /\ sp.format = format
                      /\ sp.width = width
                      /\ sp.height = height
        found == IF colour = <<>> THEN <<>>
                 ELSE SelectSeq(colour[1].profiles, Wanted)
    IN  IF found = <<>> THEN Missing ELSE found[1]

\* The profile the attach callback asks for (rs-dds-server.cpp:396-401).
RequiredProfile(sensors) ==
    get_required_profile(sensors, "COLOR", 30, "RGB8", 1280, 720)

\* ------------------------------------------------------ DDS collaborators
\* realdds::dds_device_broadcaster: the set of DeviceInfo records announced
\* on the discovery channel.
add_device(ann, info) == ann \cup {info}
\* Removing an identity that is not announced changes nothing.
remove_device(ann, info) == ann \ {info}

\* realdds::dds_device_server.  No server object: the slot of a handle
\* whose server was never made or is destroyed.
NoServer ==
    [alive |-> FALSE, topic_root |-> <<>>, init_calls |-> 0, streams |-> {},
     init_msgs |-> <<>>, image_headers |-> {}, published |-> 0]
\* The constructor (participant, topic_root).
new_server(topic_root) == [NoServer EXCEPT !.alive = TRUE,
                                           !.topic_root = topic_root]
\* A server that init is never called on.
server_init_skipped(server, names) == server
\* init( supported_streams_names ): declares the publishable streams.
server_init(server, names) ==
    [server EXCEPT !.init_calls = @ + 1, !.streams = names]
\* add_init_msg: appends to the replay queue, order kept.
add_init_msgs(server, msgs) == [server EXCEPT !.init_msgs = @ \o msgs]
\* set_image_header( stream_name, header ): the stream is Started with
\* this header, replacing an earlier one.
set_image_header(server, name, header) ==
    [server EXCEPT !.image_headers =
        {h \in @ : h.stream # name} \cup {[stream |-> name, header |-> header]}]
Started(server, name) ==
    server.alive /\ \E h \in server.image_headers : h.stream = name
\* publish_image( stream_name, data, size ): one message on the stream's
\* data channel when the stream is Started; fails otherwise.
publish_image(server, name) ==
    IF Started(server, name) THEN [server EXCEPT !.published = @ + 1]
    ELSE server

\* tools::lrs_device_controller: the streams it has started on the device.
NoController == [alive |-> FALSE, streaming |-> {}]
new_controller == [alive |-> TRUE, streaming |-> {}]
start_stream(controller, name) ==
    [controller EXCEPT !.streaming = @ \cup {name}]
\* stop_all_streams returns once no frame callback of the device runs and
\* none will start.
stop_all_streams(controller) == [controller EXCEPT !.streaming = {}]

\* dds_device::dds_stream::foreach_video_profile over the profiles a
\* video profile group carries: each as an rs2_video_stream and its
\* default flag, in the order of the group.
foreach_video_profile(msg) ==
    [i \in 1..msg.num_of_profiles |->
        LET p == msg.profiles[i]
        IN  [stream_type |-> p.type, stream_index |-> p.stream_index,
             unique_id |-> p.uid, width |-> p.width, height |-> p.height,
             fps |-> p.framerate, format |-> p.format,
             is_default |-> p.default_profile]]

\* ------------------------------------------------------------------ state
VARIABLES
    call,                 \* a function applied on its own: input and result
    main_args,            \* command line and outcome of broadcaster.run()
    ident,                \* handle -> name and serial of the hardware device
    hw,                   \* handle -> the sensors of the hardware device
    attached,             \* handles reported attached and not yet detached
    pc,                   \* where the control thread is
    cur,                  \* the device of the running watcher callback
    device_handlers_list, \* the registry: handle -> device_handler
    handler,              \* what `handler` of the detach callback refers to
    announced,            \* DeviceInfo records on the discovery channel
    servers,              \* handle -> the dds_device_server made for it
    controllers,          \* handle -> the lrs_device_controller made for it
    inflight,             \* handle -> stream of the frame callback running
    done,                 \* the watcher callback that ended last
    snap                  \* bridged state of every device at callback entry

vars == <<call, main_args, ident, hw, attached, pc, cur, device_handlers_list, handler, announced,
          servers, controllers, inflight, done, snap>>

\* RS2_CAMERA_INFO_NAME and RS2_CAMERA_INFO_SERIAL_NUMBER of each handle.
DevName(d) == ident[d].name
DevSerial(d) == ident[d].serial

\* rs2_device_to_info: the DeviceInfo snapshot of a device.
rs2_device_to_info(d) ==
    [name |-> DevName(d), serial |-> DevSerial(d),
     topic_root |-> get_topic_root(DevName(d), DevSerial(d))]

\* The bridged state of device e that another device's callbacks must
\* leave alone.
Bridged(e) ==
    [entry |-> IF e \in DOMAIN device_handlers_list
               THEN <<device_handlers_list[e]>> ELSE <<>>,
     announced |-> rs2_device_to_info(e) \in announced,
     init_msgs |-> servers[e].init_msgs,
     started |-> servers[e].image_headers,
     streaming |-> controllers[e].streaming]

\* A DeviceInfo that names no device.
NoInfo == [name |-> <<>>, serial |-> <<>>, topic_root |-> <<>>]
NoHandler == [info |-> NoInfo, server |-> 0, controller |-> 0]
EmptyRegistry == [e \in {} |-> NoHandler]
NoneDone == [op |-> "none", dev |-> 0, error |-> "none", raised |-> FALSE]
Ended(op, d, error) ==
    [op |-> op, dev |-> d, error |-> error, raised |-> error # "none"]

\* No function is applied on its own.
NoCall == [fn |-> "none"]
\* The command line of a server started without -d, whose broadcaster
\* runs (lines 299-349 passed).
DefaultArgs == [domain_set |-> FALSE, domain |-> 0, run_ok |-> TRUE]

\* The state in which dev_watcher.run is called, but for the hardware.
Running ==
    /\ attached = {}
    /\ cur = 0
    /\ device_handlers_list = EmptyRegistry
    /\ handler = NoHandler
    /\ announced = {}
    /\ servers = [d \in Devs |-> NoServer]
    /\ controllers = [d \in Devs |-> NoController]
    /\ inflight = [d \in Devs |-> <<>>]
    /\ done = NoneDone
    /\ snap = [e \in Devs |-> Bridged(e)]

Init ==
    /\ call = NoCall
    /\ main_args = DefaultArgs
    /\ ident = [d \in Devs |-> DefaultIdentity(d)]
    /\ hw \in [Devs -> HwConfigs]
    /\ pc = "idle"
    /\ Running

\* ------------------------------------------------------- attach callback
\* The callback returns or throws: the control thread is back in the
\* watcher, and the callback's locals are gone.
EndCallback(op, error) ==
    /\ pc' = "idle"
    /\ done' = Ended(op, cur, error)

\* Lines 370-375: the watcher reports device d; its DeviceInfo is built
\* and announced.
AttachAddDevice(d) ==
    /\ pc = "idle"
    /\ d \notin attached
    /\ attached' = attached \cup {d}
    /\ cur' = d
    /\ snap' = [e \in Devs |-> Bridged(e)]
    /\ announced' = add_device(announced, rs2_device_to_info(d))
    /\ pc' = "attach_server"
    /\ UNCHANGED <<call, main_args, ident, hw, device_handlers_list, handler, servers, controllers,
                   inflight, done>>

\* Lines 377-387: the device server is made and initialized with the
\* supported stream names; the device controller is made.
AttachCreateServer ==
    /\ pc = "attach_server"
    /\ servers' = [servers EXCEPT ![cur] =
            server_init(new_server(rs2_device_to_info(cur).topic_root),
                        get_supported_streams(hw[cur]))]
    /\ controllers' = [controllers EXCEPT ![cur] = new_controller]
    /\ pc' = "attach_emplace"
    /\ UNCHANGED <<call, main_args, ident, hw, attached, cur, device_handlers_list, handler,
                   announced, inflight, done, snap>>

\* std::map::emplace: inserts unless the key is present.
emplace(map, key, value) ==
    IF key \in DOMAIN map THEN map
    ELSE [k \in DOMAIN map \cup {key} |-> IF k = key THEN value ELSE map[k]]

\* An erase that removes nothing.
erase_none(map, key) == map

\* std::map::erase( key ).
erase(map, key) == [k \in DOMAIN map \ {key} |-> map[k]]

\* Line 390: the handler enters the registry.
AttachEmplace ==
    /\ pc = "attach_emplace"
    /\ device_handlers_list' =
            emplace(device_handlers_list, cur,
                    [info |-> rs2_device_to_info(cur),
                     server |-> cur, controller |-> cur])
    /\ pc' = "attach_init"
    /\ UNCHANGED <<call, main_args, ident, hw, attached, cur, handler, announced, servers,
                   controllers, inflight, done, snap>>

\* The messages go to every live server instead of the new one.
AttachInitDevice_shared ==
    /\ pc = "attach_init"
    /\ LET r == init_dds_device(hw[cur])
       IN  /\ servers' = [e \in Devs |->
                    IF servers[e].alive THEN add_init_msgs(servers[e], r.msgs)
                    ELSE servers[e]]
           /\ IF r.threw
              THEN EndCallback("attach", "unsupported_sensor")
              ELSE pc' = "attach_profile" /\ done' = done
    /\ UNCHANGED <<call, main_args, ident, hw, attached, cur, device_handlers_list, handler,
                   announced, controllers, inflight, snap>>

\* Line 393: init_dds_device queues the header and the profile messages;
\* an unsupported sensor throws out of the callback.
AttachInitDevice ==
    /\ pc = "attach_init"
    /\ LET r == init_dds_device(hw[cur])
       IN  /\ servers' = [servers EXCEPT ![cur] = add_init_msgs(@, r.msgs)]
           /\ IF r.threw
              THEN EndCallback("attach", "unsupported_sensor")
              ELSE pc' = "attach_profile" /\ done' = done
    /\ UNCHANGED <<call, main_args, ident, hw, attached, cur, device_handlers_list, handler,
                   announced, controllers, inflight, snap>>

\* Lines 396-401: the default colour profile is looked up; the callback
\* throws when the device has none.
AttachGetProfile ==
    /\ pc = "attach_profile"
    /\ IF RequiredProfile(hw[cur]) = Missing
       THEN EndCallback("attach", "profile_not_found")
       ELSE pc' = "attach_header" /\ done' = done
    /\ UNCHANGED <<call, main_args, ident, hw, attached, cur, device_handlers_list, handler,
                   announced, servers, controllers, inflight, snap>>

\* start_streaming without the set_image_header call.
AttachSetImageHeader_skipped ==
    /\ pc = "attach_header"
    /\ pc' = "attach_start"
    /\ UNCHANGED <<call, main_args, ident, hw, attached, cur, device_handlers_list, handler,
                   announced, servers, controllers, inflight, done, snap>>

\* Lines 75-80 of start_streaming: the image header of the stream is set.
AttachSetImageHeader ==
    /\ pc = "attach_header"
    /\ LET vsp == RequiredProfile(hw[cur])
       IN  servers' = [servers EXCEPT ![cur] =
                set_image_header(@, stream_name(vsp),
                                 [format |-> vsp.format,
                                  height |-> vsp.height,
                                  width |-> vsp.width])]
    /\ pc' = "attach_start"
    /\ UNCHANGED <<call, main_args, ident, hw, attached, cur, device_handlers_list, handler,
                   announced, controllers, inflight, done, snap>>

\* Lines 83-96 of start_streaming: the controller starts the stream with
\* the frame callback; the attach callback returns.
AttachStartStream ==
    /\ pc = "attach_start"
    /\ controllers' = [controllers EXCEPT ![cur] =
            start_stream(@, stream_name(RequiredProfile(hw[cur])))]
    /\ EndCallback("attach", "none")
    /\ UNCHANGED <<call, main_args, ident, hw, attached, cur, device_handlers_list, handler,
                   announced, servers, inflight, snap>>

\* ------------------------------------------------------- detach callback
\* Line 409: the watcher reports device d gone; device_handlers_list.at
\* throws std::out_of_range when d has no entry.
DetachAt(d) ==
    /\ pc = "idle"
    /\ attached' = attached \ {d}
    /\ cur' = d
    /\ snap' = [e \in Devs |-> Bridged(e)]
    /\ IF d \in DOMAIN device_handlers_list
       THEN /\ handler' = device_handlers_list[d]
            /\ pc' = "detach_stop"
            /\ done' = done
       ELSE /\ handler' = handler
            /\ pc' = "idle"
            /\ done' = Ended("detach", d, "out_of_range")
    /\ UNCHANGED <<call, main_args, ident, hw, device_handlers_list, announced, servers,
                   controllers, inflight>>

\* stop_all_streams returns once no frame callback of the controller's
\* device is running.
Quiesced(c) == inflight[c] = <<>>

\* A detach callback without the stop_all_streams call.
DetachStopAllStreams_skipped ==
    /\ pc = "detach_stop"
    /\ pc' = "detach_erase"
    /\ UNCHANGED <<call, main_args, ident, hw, attached, cur, device_handlers_list, handler,
                   announced, servers, controllers, inflight, done, snap>>

\* Line 411: handler.controller->stop_all_streams().
DetachStopAllStreams ==
    /\ pc = "detach_stop"
    /\ Quiesced(handler.controller)
    /\ controllers' = [controllers EXCEPT ![handler.controller] =
                            stop_all_streams(@)]
    /\ pc' = "detach_erase"
    /\ UNCHANGED <<call, main_args, ident, hw, attached, cur, device_handlers_list, handler,
                   announced, servers, inflight, done, snap>>

\* Line 412: the entry leaves the registry; the handler held the last
\* references to the controller (which owns the frame callback) and,
\* with the callback, to the server: both are destroyed.
DetachErase ==
    /\ pc = "detach_erase"
    /\ device_handlers_list' = erase(device_handlers_list, cur)
    /\ servers' = [servers EXCEPT ![handler.server] = NoServer]
    /\ controllers' = [controllers EXCEPT ![handler.controller] = NoController]
    /\ pc' = "detach_remove"
    /\ UNCHANGED <<call, main_args, ident, hw, attached, cur, handler, announced, inflight, done,
                   snap>>

\* What reading handler.info yields: the entry's info while the entry is
\* in the map; once the entry is erased the reference dangles, and the
\* read yields either the bytes the entry held or other bytes, which name
\* no announced device.
ReadHandlerInfo ==
    IF cur \in DOMAIN device_handlers_list
    THEN {device_handlers_list[cur].info}
    ELSE {handler.info, NoInfo}

\* Line 415: broadcaster.remove_device( handler.info ); the callback
\* returns and its reference `handler` is gone.
DetachRemoveDevice ==
    /\ pc = "detach_remove"
    /\ \E info \in ReadHandlerInfo :
            announced' = remove_device(announced, info)
    /\ handler' = NoHandler
    /\ EndCallback("detach", "none")
    /\ UNCHANGED <<call, main_args, ident, hw, attached, cur, device_handlers_list,
                   servers, controllers, inflight, snap>>

\* ---------------------------------------------------------- frame threads
\* The SDK invokes the frame callback of a started stream of device d
\* (line 83); one frame per stream is in flight at a time.
FrameArrive(d) ==
    /\ inflight[d] = <<>>
    /\ servers[d].published < MaxFrames
    /\ \E name \in controllers[d].streaming :
            inflight' = [inflight EXCEPT ![d] = <<name>>]
    /\ UNCHANGED <<call, main_args, ident, hw, attached, pc, cur, device_handlers_list, handler,
                   announced, servers, controllers, done, snap>>

\* Lines 84-90: the callback calls publish_image on the server it
\* captured.  The call publishes the frame and the callback returns, or
\* it throws (the stream is not Started, or the transport fails) and the
\* frame thread enters the catch block of line 91.
FramePublish(d) ==
    /\ inflight[d] # <<>>
    /\ Len(inflight[d]) = 1
    /\ \E transport_ok \in BOOLEAN :
          IF transport_ok /\ Started(servers[d], inflight[d][1])
          THEN /\ servers' = [servers EXCEPT ![d] =
                                publish_image(@, inflight[d][1])]
               /\ inflight' = [inflight EXCEPT ![d] = <<>>]
          ELSE /\ servers' = servers
               /\ inflight' = [inflight EXCEPT ![d] = @ \o <<"caught">>]
    /\ UNCHANGED <<call, main_args, ident, hw, attached, pc, cur, device_handlers_list, handler,
                   announced, controllers, done, snap>>

\* A handler that lets the exception leave the callback: the SDK thread
\* that delivers the stream ends.
FrameCaught_escapes(d) ==
    /\ Len(inflight[d]) = 2
    /\ inflight' = [inflight EXCEPT ![d] = <<>>]
    /\ controllers' = [controllers EXCEPT ![d].streaming =
                            @ \ {inflight[d][1]}]
    /\ UNCHANGED <<call, main_args, ident, hw, attached, pc, cur, device_handlers_list, handler,
                   announced, servers, done, snap>>

\* Lines 91-95: the exception is logged and the callback returns; the
\* frame is not published again.
FrameCaught(d) ==
    /\ Len(inflight[d]) = 2
    /\ inflight' = [inflight EXCEPT ![d] = <<>>]
    /\ UNCHANGED <<call, main_args, ident, hw, attached, pc, cur, device_handlers_list, handler,
                   announced, servers, controllers, done, snap>>

Next ==
    \/ \E d \in Devs : AttachAddDevice(d)
    \/ AttachCreateServer
    \/ AttachEmplace
    \/ AttachInitDevice
    \/ AttachGetProfile
    \/ AttachSetImageHeader
    \/ AttachStartStream
    \/ \E d \in Devs : DetachAt(d)
    \/ DetachStopAllStreams
    \/ DetachErase
    \/ DetachRemoveDevice
    \/ \E d \in Devs : FrameArrive(d)
    \/ \E d \in Devs : FramePublish(d)
    \/ \E d \in Devs : FrameCaught(d)

Spec == Init /\ [][Next]_vars

\* ---------------------------------------------- functions on their own
\* Device names and serial numbers get_topic_root is applied to.
\* a RealSense camera
D435Name == <<"I", "n", "t", "e", "l", " ", "R", "e", "a", "l", "S", "e", "n", "s", "e", " ", "D", "4", "3", "5">>
\* a camera of another make
GenericName == <<"G", "e", "n", "e", "r", "i", "c", " ", "C", "a", "m">>
\* the vendor prefix and nothing else (16 characters)
PrefixOnly == <<"I", "n", "t", "e", "l", " ", "R", "e", "a", "l", "S", "e", "n", "s", "e", " ">>
\* the shortest name longer than the prefix
PrefixAndOne == <<"I", "n", "t", "e", "l", " ", "R", "e", "a", "l", "S", "e", "n", "s", "e", " ", "D">>
\* the prefix in another case
LowerCaseName == <<"i", "n", "t", "e", "l", " ", "r", "e", "a", "l", "s", "e", "n", "s", "e", " ", "D", "4", "3", "5">>
\* the prefix but for its last character
NoSpaceName == <<"I", "n", "t", "e", "l", " ", "R", "e", "a", "l", "S", "e", "n", "s", "e", "D", "4", "3", "5">>
\* the prefix, not at offset 0
OffsetName == <<" ", "I", "n", "t", "e", "l", " ", "R", "e", "a", "l", "S", "e", "n", "s", "e", " ", "D", "4", "3", "5">>
\* no name
EmptyName == <<>>
\* shorter than the prefix
ShortName == <<"I", "n", "t", "e", "l">>
\* a model name without a vendor
BareModel == <<"D", "4", "3", "5">>
\* the prefix without its last character (15 characters)
PrefixCut == <<"I", "n", "t", "e", "l", " ", "R", "e", "a", "l", "S", "e", "n", "s", "e">>
\* the prefix twice
TwicePrefix == <<"I", "n", "t", "e", "l", " ", "R", "e", "a", "l", "S", "e", "n", "s", "e", " ", "I", "n", "t", "e", "l", " ", "R", "e", "a", "l", "S", "e", "n", "s", "e", " ", "D", "4", "3", "5">>
Names ==
    {D435Name, GenericName, PrefixOnly, PrefixAndOne,
     LowerCaseName, NoSpaceName, OffsetName, EmptyName,
     ShortName, BareModel, PrefixCut, TwicePrefix}
Serials ==
    {<<"1", "1", "2", "2", "3", "3", "4", "4">>,
     <<"9", "9">>,
     <<>>,
     <<"1">>,
     <<"1", "1">>,
     <<"1", "2">>,
     <<"2", "1">>,
     <<"1", "/", "2">>,
     <<"0">>}

\* get_topic_root( dev_info.name, dev_info.serial ), as rs2_device_to_info
\* calls it.
CallGetTopicRoot ==
    /\ call = NoCall
    /\ \E name \in Names, serial \in Serials :
          call' = [fn |-> "get_topic_root", name |-> name, serial |-> serial,
                   result |-> get_topic_root(name, serial)]
    /\ UNCHANGED <<main_args, ident, hw, attached, pc, cur,
                   device_handlers_list, handler, announced, servers,
                   controllers, inflight, done, snap>>

\* Video profiles at the ends of the wire widths, and one whose unique id
\* (an int of the SDK) is past 16 bits.
WidestFit ==
    VideoProfile("INFRARED", "Infrared 2", 127, 32767, 32767, "Y8",
                 32767, 32767, FALSE)
NarrowestFit ==
    VideoProfile("FISHEYE", "Fisheye", -128, -32768, 0, "RAW8", 0, 0, FALSE)
LateUid ==
    VideoProfile("COLOR", "Color", 0, 32768, 30, "RGB8", 1280, 720, FALSE)
ProfileInputs ==
    {ColorRGB720, DepthZ720, Gyro200, WidestFit, NarrowestFit, LateUid}

\* The lists of at most n profiles.
ProfileLists(n) == UNION {[1..k -> ProfileInputs] : k \in 0..n}

\* prepare_video_profiles_messeges on the profiles of a sensor.
CallPrepareVideoProfiles ==
    /\ call = NoCall
    /\ \E stream_profiles \in ProfileLists(MaxProfiles) :
          call' = [fn |-> "prepare_video_profiles_messeges",
                   stream_profiles |-> stream_profiles,
                   result |-> prepare_video_profiles_messeges(
                                  "RGB Camera", stream_profiles)]
    /\ UNCHANGED <<main_args, ident, hw, attached, pc, cur,
                   device_handlers_list, handler, announced, servers,
                   controllers, inflight, done, snap>>

\* Sensors of every kind: with profiles of their kind, with none, with
\* profiles of the other kind only, and of a kind that is not supported.
SensorInputs ==
    {Sensor("depth", "Stereo Module", <<DepthZ720, Infrared1>>),
     Sensor("color", "RGB Camera", <<ColorRGB720, Gyro200>>),
     Sensor("motion", "Motion Module", <<Gyro200, Accel63>>),
     Sensor("color", "Idle Camera", <<>>),
     Sensor("motion", "Odd Module", <<ColorRGB720>>),
     Sensor("pose", "Tracking Module", <<Pose200>>)}

\* The lists of at most n sensors.
SensorLists(n) == UNION {[1..k -> SensorInputs] : k \in 0..n}

\* add_init_profiles_msgs on the sensors of a device: the messages it has
\* queued when it returns or throws.
CallAddInitProfilesMsgs ==
    /\ call = NoCall
    /\ \E sensors \in SensorLists(MaxSensors) :
          call' = [fn |-> "add_init_profiles_msgs", sensors |-> sensors,
                   result |-> add_init_profiles_msgs(sensors)]
    /\ UNCHANGED <<main_args, ident, hw, attached, pc, cur,
                   device_handlers_list, handler, announced, servers,
                   controllers, inflight, done, snap>>

\* A function is applied once, with the server at rest.
InitPure ==
    /\ call = NoCall
    /\ main_args = DefaultArgs
    /\ ident = [d \in Devs |-> DefaultIdentity(d)]
    /\ hw = [d \in Devs |-> HwFull]
    /\ pc = "idle"
    /\ Running

NextPure ==
    \/ CallGetTopicRoot
    \/ CallPrepareVideoProfiles
    \/ CallAddInitProfilesMsgs

SpecPure == InitPure /\ [][NextPure]_vars

\* ------------------------------------------- devices of any name and serial
\* Names and serial numbers hardware may report: a RealSense camera, a
\* camera that reports the bare model under the same serial number, and a
\* camera of another make.
Identities ==
    {Identity(D435Name, <<"1", "1">>),
     Identity(BareModel, <<"1", "1">>),
     Identity(GenericName, <<"2", "2">>)}

\* Two devices never report the same name and serial number.
InitIdent ==
    /\ call = NoCall
    /\ main_args = DefaultArgs
    /\ ident \in {f \in [Devs -> Identities] :
                      \A d, e \in Devs : d # e => f[d] # f[e]}
    /\ hw = [d \in Devs |-> HwFull]
    /\ pc = "idle"
    /\ Running

SpecIdent == InitIdent /\ [][Next]_vars

\* -------------------------------------------------- threads and the map
\* The positions of the control thread whose next statement reads or
\* writes device_handlers_list or an entry of it: emplace (line 390),
\* handler.controller (411), erase (412), handler.info (415). The lookup
\* of line 409 is the statement that leaves "idle".
ControlMapPcs ==
    {"attach_emplace", "detach_stop", "detach_erase", "detach_remove"}

\* The position of the frame callback of device d: 0 when none runs, 1 in
\* the try block, 2 in the catch block.
FramePosition(d) == Len(inflight[d])

\* A frame callback that finds its server through the map when it
\* publishes.
FrameMapPositions_lookup == {1}

\* The positions of a frame callback at which it reads or writes the map:
\* the callback names dds_dev_server (its own copy), f and vf only.
FrameMapPositions == {}

\* The threads about to read or write the map: 0 is the control thread,
\* d the frame thread of device d.
AtMap ==
    (IF pc \in ControlMapPcs THEN {0} ELSE {})
    \cup {d \in Devs : FramePosition(d) \in FrameMapPositions}

\* ---------------------------------------------------------------- startup
EXIT_FAILURE == 1
EXIT_SUCCESS == 0
\* What main has returned at position p.
ExitStatus(p) == IF p = "exit_failure" THEN EXIT_FAILURE ELSE EXIT_SUCCESS

\* dds_participant::init: throws for a domain no participant can be
\* created on; main's handlers catch it and return EXIT_FAILURE.
participant_init_ok(domain) == domain \in 0..232

\* Command lines (no -d; -d with a domain below, at the ends of, and above
\* the range) and whether broadcaster.run() will succeed.
CmdLines ==
    {[domain_set |-> FALSE, domain |-> 0, run_ok |-> r] : r \in BOOLEAN}
    \cup {[domain_set |-> TRUE, domain |-> n, run_ok |-> r] :
                n \in {-1, 232, 233}, r \in BOOLEAN}

\* Before anything of main has run.
InitMain ==
    /\ call = NoCall
    /\ main_args \in CmdLines
    /\ ident = [d \in Devs |-> DefaultIdentity(d)]
    /\ hw \in [Devs -> {HwFull, HwUnsupported}]
    /\ pc = "main"
    /\ Running

\* Lines 299-335: the command line is parsed and the domain checked.
MainParseArgs ==
    /\ pc = "main"
    /\ pc' = IF main_args.domain_set /\ main_args.domain > 232
             THEN "exit_failure"
             ELSE "main_participant"
    /\ UNCHANGED <<call, main_args, ident, hw, attached, cur,
                   device_handlers_list, handler, announced, servers,
                   controllers, inflight, done, snap>>

\* Lines 338-339: the participant is created on the domain.
MainInitParticipant ==
    /\ pc = "main_participant"
    /\ pc' = IF participant_init_ok(main_args.domain)
             THEN "main_broadcaster"
             ELSE "exit_failure"
    /\ UNCHANGED <<call, main_args, ident, hw, attached, cur,
                   device_handlers_list, handler, announced, servers,
                   controllers, inflight, done, snap>>

\* A main that goes on whatever broadcaster.run() returns.
MainRunBroadcaster_unchecked ==
    /\ pc = "main_broadcaster"
    /\ pc' = "idle"
    /\ UNCHANGED <<call, main_args, ident, hw, attached, cur,
                   device_handlers_list, handler, announced, servers,
                   controllers, inflight, done, snap>>

\* Lines 342-367: the broadcaster is run; if it runs, the watcher is
\* started with the attach and detach callbacks.
MainRunBroadcaster ==
    /\ pc = "main_broadcaster"
    /\ pc' = IF main_args.run_ok THEN "idle" ELSE "exit_failure"
    /\ UNCHANGED <<call, main_args, ident, hw, attached, cur,
                   device_handlers_list, handler, announced, servers,
                   controllers, inflight, done, snap>>

NextMain ==
    \/ MainParseArgs
    \/ MainInitParticipant
    \/ MainRunBroadcaster
    \/ Next

SpecMain == InitMain /\ [][NextMain]_vars

\* ----------------------------------------------------------------- claims
Info(d) == rs2_device_to_info(d)
Registered(d) == d \in DOMAIN device_handlers_list
IsProfileMsg(m) ==
    m.type \in {"VIDEO_STREAM_PROFILES", "MOTION_STREAM_PROFILES"}

\* The number of stream profiles of all sensors of a device.
ProfileCount(sensors) ==
    Cardinality(UNION { { <<i, j>> : j \in 1..Len(sensors[i].profiles) } :
                            i \in DOMAIN sensors })

\* init_dds_device has run on the server made for d.
InitRan(d) ==
    /\ servers[d].alive
    /\ ~(cur = d /\ pc \in {"attach_emplace", "attach_init"})

\* C1: the initialization queue of the server made at an attach begins
\* with exactly one DEVICE_HEADER message, every other message of the
\* queue is a profile message, and the header's num_of_streams is the
\* number of profiles of all sensors of the device; before the attach
\* callback has built the queue it is empty.
C1_HeaderLeadsInitQueue ==
    \A d \in Devs :
        LET q == servers[d].init_msgs
        IN  IF InitRan(d)
            THEN /\ Len(q) >= 1
                 /\ q[1].type = "DEVICE_HEADER"
                 /\ q[1].num_of_streams = ProfileCount(hw[d])
                 /\ \A k \in 2..Len(q) : IsProfileMsg(q[k])
            ELSE q = <<>>

\* A device with three sensors whose queue holds the header and three
\* profile messages.
C1_Witness ==
    \E d \in Devs :
        /\ InitRan(d)
        /\ Len(servers[d].init_msgs) = 4
        /\ servers[d].init_msgs[1].num_of_streams = 6

\* The queue q enumerates sensor: a sensor with n > 0 profiles of its
\* kind has a profile message of that kind carrying n profiles after the
\* header.
SensorEnumerated(q, sensor) ==
    LET video == sensor.kind \in {"color", "depth"}
        n == Cardinality({ j \in 1..Len(sensor.profiles) :
                 sensor.profiles[j].kind =
                    (IF video THEN "video" ELSE "motion") })
    IN  /\ sensor.kind \in {"color", "depth", "motion"}
        /\ n > 0 =>
             \E k \in 2..Len(q) :
                /\ q[k].type = (IF video THEN "VIDEO_STREAM_PROFILES"
                                ELSE "MOTION_STREAM_PROFILES")
                /\ q[k].group_name = sensor.name
                /\ q[k].num_of_profiles = n

QueueComplete(d) ==
    LET q == servers[d].init_msgs
    IN  /\ Len(q) >= 1
        /\ q[1].type = "DEVICE_HEADER"
        /\ \A i \in DOMAIN hw[d] : SensorEnumerated(q, hw[d][i])

\* C2: when the stream of a device is about to be started, is started,
\* has a frame callback running or has published an image, the server's
\* initialization queue holds the device header and the profile messages
\* of all sensors of the device.
C2_InitBeforeFrames ==
    \A d \in Devs :
        \/ cur = d /\ pc = "attach_start"
        \/ controllers[d].streaming # {}
        \/ inflight[d] # <<>>
        \/ servers[d].published > 0
        => QueueComplete(d)

\* A three-sensor device that has published an image.
C2_Witness ==
    \E d \in Devs :
        /\ hw[d] = HwFull
        /\ servers[d].published > 0
        /\ controllers[d].streaming # {}

\* C3: a frame callback runs publish_image only for a stream whose image
\* header is set on the server of its device, and a data channel holds
\* images only if a header was set on its server.
C3_NoIdlePublish ==
    \A d \in Devs :
        /\ inflight[d] # <<>> => Started(servers[d], inflight[d][1])
        /\ servers[d].published > 0 => servers[d].image_headers # {}

\* A frame callback is running on a started stream.
C3_Witness ==
    \E d \in Devs :
        /\ inflight[d] # <<>>
        /\ Started(servers[d], inflight[d][1])

\* C4: a detach of a registered device stops the streams, then erases the
\* registry entry, then retracts the device: streams are stopped when the
\* entry is erased, the entry is erased when the device is retracted, no
\* device is announced and unregistered with streams running, and when
\* the callback has returned the device is stopped, unregistered and no
\* longer announced.
C4_DetachTeardown ==
    /\ pc = "detach_erase" => controllers[cur].streaming = {}
    /\ pc = "detach_remove" => ~Registered(cur)
    /\ \A d \in Devs :
          ~(/\ Info(d) \in announced
            /\ ~Registered(d)
            /\ controllers[d].streaming # {})
    /\ pc = "idle" /\ done.op = "detach" /\ done.error = "none" =>
          /\ controllers[done.dev].streaming = {}
          /\ ~Registered(done.dev)
          /\ Info(done.dev) \notin announced

\* C5: between watcher callbacks the registry holds an entry for exactly
\* the devices attached and not yet detached, and each entry is the
\* handler of its own device with a live server and controller.
C5_RegistryMatchesAttached ==
    pc = "idle" =>
        /\ DOMAIN device_handlers_list = attached
        /\ \A d \in attached :
              /\ device_handlers_list[d] =
                    [info |-> Info(d), server |-> d, controller |-> d]
              /\ servers[d].alive
              /\ controllers[d].alive

\* One device was detached while another stays registered.
C5_Witness ==
    /\ pc = "idle"
    /\ done.op = "detach"
    /\ done.error = "none"
    /\ attached # {}
    /\ done.dev \notin attached

\* C6: a registered device whose attach or detach callback is not running
\* is announced, and between watcher callbacks the announced DeviceInfo
\* records are exactly those of the registry entries.
C6_AnnouncedMatchesRegistry ==
    /\ \A d \in DOMAIN device_handlers_list :
          ~(cur = d /\ pc # "idle") => Info(d) \in announced
    /\ pc = "idle" =>
          announced = { device_handlers_list[d].info :
                            d \in DOMAIN device_handlers_list }

\* C7: an attach that hits a per-device error (unsupported sensor, no
\* required colour profile) ends with the device unregistered, not
\* announced and not streaming, and the error does not leave the callback.
C7_FailedAttachAborted ==
    pc = "idle" /\ done.op = "attach" /\ done.error # "none" =>
        /\ ~Registered(done.dev)
        /\ Info(done.dev) \notin announced
        /\ controllers[done.dev].streaming = {}
        /\ ~done.raised

\* C8: when a watcher callback has ended with an error, the registry
\* entry, the announcement, the initialization queue and the streams of
\* every other device are what they were when the callback was entered.
C8_OtherDevicesUntouched ==
    pc = "idle" /\ done.raised =>
        \A e \in Devs \ {done.dev} : Bridged(e) = snap[e]

\* A callback failed while another device was registered and streaming.
C8_Witness ==
    /\ pc = "idle"
    /\ done.raised
    /\ \E e \in Devs \ {done.dev} :
          /\ Registered(e)
          /\ controllers[e].streaming # {}
          /\ Len(servers[e].init_msgs) > 1

\* C9: a detach of a device that had no registry entry leaves the
\* registry and the announced devices as they were and raises no error
\* out of the callback.
C9_DetachUnregisteredHarmless ==
    pc = "idle" /\ done.op = "detach" /\ snap[done.dev].entry = <<>> =>
        /\ \A e \in Devs : Bridged(e).entry = snap[e].entry
        /\ \A e \in Devs : Bridged(e).announced = snap[e].announced
        /\ ~done.raised

\* C10: while a frame callback of a device is running, the device's
\* registry entry is in the registry and the server and controller the
\* callback uses are alive.
C10_NoUseAfterTeardown ==
    \A d \in Devs :
        inflight[d] # <<>> =>
            /\ Registered(d)
            /\ servers[d].alive
            /\ controllers[d].alive

\* A detach is waiting in stop_all_streams while a frame callback of the
\* device is running.
C10_Witness ==
    /\ pc = "detach_stop"
    /\ inflight[cur] # <<>>

\* The frame callback of d is in its catch block.
InCatch(d) == Len(inflight[d]) = 2

\* C11: a publish_image that throws on a stream takes the frame callback
\* into its catch block with the server and the controller unchanged; the
\* callback then returns without publishing the frame, the server is as
\* it was (a Started stream stays Started) and the stream is still
\* delivered by the controller, so the next frame reaches publish_image.
C11_PublishFailureDropped ==
    [][\A d \in Devs :
          /\ Len(inflight[d]) = 1 /\ InCatch(d)' =>
                /\ inflight'[d][1] = inflight[d][1]
                /\ servers' = servers
                /\ controllers' = controllers
          /\ InCatch(d) /\ inflight'[d] # inflight[d] =>
                /\ inflight'[d] = <<>>
                /\ servers'[d] = servers[d]
                /\ Started(servers[d], inflight[d][1]) =>
                        Started(servers'[d], inflight[d][1])
                /\ inflight[d][1] \in controllers[d].streaming =>
                        inflight[d][1] \in controllers'[d].streaming
                /\ pc' = pc /\ done' = done]_vars

\* A publish failed on a Started stream that is still being delivered.
C11_Witness ==
    \E d \in Devs :
        /\ InCatch(d)
        /\ Started(servers[d], inflight[d][1])
        /\ inflight[d][1] \in controllers[d].streaming

\* The string s begins with the string p.
StartsWith(s, p) == Len(s) >= Len(p) /\ SubSeq(s, 1, Len(p)) = p
\* The string s without its first n characters.
DropFirst(s, n) == [i \in 1..(Len(s) - n) |-> s[i + n]]
\* The two examples of a topic root.
TopicRootExamples ==
    /\ call.name = D435Name /\ call.serial = <<"1", "1", "2", "2", "3", "3", "4", "4">> =>
            call.result = <<"r", "e", "a", "l", "s", "e", "n", "s", "e", "/", "D", "4", "3", "5", "/", "1", "1", "2", "2", "3", "3", "4", "4">>
    /\ call.name = GenericName /\ call.serial = <<"9", "9">> =>
            call.result = <<"r", "e", "a", "l", "s", "e", "n", "s", "e", "/", "G", "e", "n", "e", "r", "i", "c", " ", "C", "a", "m", "/", "9", "9">>

C13_TopicRootsDistinct ==
    /\ \A d, e \in DOMAIN device_handlers_list :
            d # e => device_handlers_list[d].info.topic_root
                        # device_handlers_list[e].info.topic_root
    /\ \A i, j \in announced :
            (i.name # j.name \/ i.serial # j.serial) =>
                i.topic_root # j.topic_root

\* The eight fields of a profile the round trip is about.
ProfileFields(sp) ==
    [stream_type |-> sp.stream_type, stream_index |-> sp.stream_index,
     unique_id |-> sp.unique_id, width |-> sp.width, height |-> sp.height,
     fps |-> sp.fps, format |-> sp.format, is_default |-> sp.is_default]
\* The numbers of the profile are within the widths of the wire fields.
FitsWire(sp) ==
    /\ sp.stream_index \in -128..127
    /\ \A x \in {sp.unique_id, sp.fps, sp.width, sp.height} :
            x \in -32768..32767
\* The group message has as many profiles as the call has video profiles
\* and gives them back in order, every field as it went in.
VideoRoundTrip ==
    LET given == SelectSeq(call.stream_profiles, IsVideo)
        back == foreach_video_profile(call.result)
    IN  /\ call.result.num_of_profiles = Len(given)
        /\ Len(back) = Len(given)
        /\ \A i \in 1..Len(given) : back[i] = ProfileFields(given[i])
IsVideoCall == call.fn = "prepare_video_profiles_messeges"

Gated ==
    \/ main_args.domain_set /\ main_args.domain \notin 0..232
    \/ ~main_args.run_ok
StartupPcs == {"main", "main_participant", "main_broadcaster"}

C16_InitOnceFirst ==
    \A d \in Devs :
        /\ servers[d].alive => servers[d].init_calls = 1
        /\ servers[d].init_calls <= 1
        /\ (\/ servers[d].init_msgs # <<>>
            \/ servers[d].image_headers # {}
            \/ servers[d].published > 0
            \/ inflight[d] # <<>>) => servers[d].init_calls = 1

\* A server that was initialized once has queued its initialization
\* messages, has a stream Started and has published a frame.
C16_Witness ==
    \E d \in Devs :
        /\ servers[d].init_calls = 1
        /\ servers[d].init_msgs # <<>>
        /\ servers[d].image_headers # {}
        /\ servers[d].published > 0

SensorSupported(i) == call.sensors[i].kind \in {"color", "depth", "motion"}
SensorMsgType(i) ==
    IF call.sensors[i].kind = "motion"
    THEN "MOTION_STREAM_PROFILES" ELSE "VIDEO_STREAM_PROFILES"
SensorMsgCount(i) ==
    LET wanted == IF call.sensors[i].kind = "motion" THEN "motion" ELSE "video"
    IN  Cardinality({j \in DOMAIN call.sensors[i].profiles :
                        call.sensors[i].profiles[j].kind = wanted})
\* The index of the first sensor of an unsupported kind, or one past the
\* last sensor.
FirstUnsupported ==
    LET bad == {i \in DOMAIN call.sensors : ~SensorSupported(i)}
    IN  IF bad = {} THEN Len(call.sensors) + 1
        ELSE CHOOSE i \in bad : \A j \in bad : i <= j
\* The sensors that are to yield a message, in enumeration order.
YieldingSensors ==
    SelectSeq([i \in 1..(FirstUnsupported - 1) |-> i],
              LAMBDA i : SensorMsgCount(i) > 0)

\* C18: add_init_profiles_msgs queues, in sensor order, one message for
\* each sensor before the first unsupported one that has a profile of its
\* kind (VIDEO_STREAM_PROFILES for color and depth, MOTION_STREAM_PROFILES
\* for motion), nothing for a sensor whose message would be empty, and
\* raises at the first unsupported sensor with nothing queued for it or
\* for a later sensor.
C18_ProfileMsgsPerSensor ==
    call.fn = "add_init_profiles_msgs" =>
        /\ call.result.threw = (FirstUnsupported <= Len(call.sensors))
        /\ Len(call.result.msgs) = Len(YieldingSensors)
        /\ \A k \in DOMAIN YieldingSensors :
              LET m == call.result.msgs[k]
                  i == YieldingSensors[k]
              IN  /\ m.type = SensorMsgType(i)
                  /\ m.group_name = call.sensors[i].name
                  /\ m.num_of_profiles = SensorMsgCount(i)
                  /\ m.num_of_profiles > 0

\* A depth sensor, a sensor without profiles and a motion sensor gave a
\* video and a motion message.
C18_Witness ==
    /\ call.fn = "add_init_profiles_msgs"
    /\ Len(call.sensors) = 3
    /\ call.sensors[1].kind = "depth"
    /\ call.sensors[2].profiles = <<>>
    /\ call.sensors[3].kind = "motion"
    /\ Len(call.result.msgs) = 2
    /\ call.result.msgs[1].type = "VIDEO_STREAM_PROFILES"
    /\ call.result.msgs[2].type = "MOTION_STREAM_PROFILES"

\* init_dds_device has run on the server made for d and has not thrown.
InitSucceeded(d) == InitRan(d) /\ ~init_dds_device(hw[d]).threw

\* C19: for every successfully initialized device the header's
\* num_of_streams is the sum of num_of_profiles over the profile messages
\* queued after it, whatever the kinds of the profiles its sensors list.
C19_HeaderCountsQueuedProfiles ==
    \A d \in Devs :
        InitSucceeded(d) =>
            LET q == servers[d].init_msgs
            IN  q[1].num_of_streams =
                    SumSeq([k \in 1..(Len(q) - 1) |-> q[k + 1].num_of_profiles])

\* C20: the info handed to remove_device at a detach is the info the
\* device was announced with at its attach, and it is read from an entry
\* that is still in the registry.
C20_RemoveReadsLiveEntry ==
    [][pc = "detach_remove" =>
            /\ Registered(cur)
            /\ announced' = announced \ {Info(cur)}]_vars

\* C21: the stream of the profile get_required_profile returns for a
\* device, for which the attach callback sets the image header, which it
\* starts and whose frames are published, is one of the stream names
\* passed to init on the device's server.
C21_StartedStreamDeclared ==
    /\ pc \in {"attach_header", "attach_start"} =>
            stream_name(RequiredProfile(hw[cur])) \in servers[cur].streams
    /\ \A d \in Devs :
            /\ \A h \in servers[d].image_headers :
                    h.stream \in servers[d].streams
            /\ controllers[d].streaming \subseteq servers[d].streams
            /\ inflight[d] # <<>> => inflight[d][1] \in servers[d].streams

\* The default colour stream of a device with three sensors was declared,
\* has its header set, is started and has had a frame published.
C21_Witness ==
    \E d \in Devs :
        /\ hw[d] = HwFull
        /\ stream_name(RequiredProfile(hw[d])) \in servers[d].streams
        /\ Started(servers[d], stream_name(RequiredProfile(hw[d])))
        /\ stream_name(RequiredProfile(hw[d])) \in controllers[d].streaming
        /\ servers[d].published > 0

====
